---- MODULE Spec2Model ----
(***************************************************************************)
(* The shopping-list screen of the zenlist client                          *)
(* (src/app/(tabs)/shopping-list.tsx): the component's state, its          *)
(* optimistic list mutations with their rollbacks, the list fetches, and   *)
(* the remote list service the requests are sent to.                       *)
(*                                                                         *)
(* Every asynchronous handler call is one entry of `ops`: the call step    *)
(* runs the handler up to its first await (the optimistic update and the   *)
(* fetch), ServerProcess answers the request in flight, and the response   *)
(* step runs the rest of the handler.  React re-renders after every state  *)
(* change, so every step ends with Render.                                 *)
(***************************************************************************)
EXTENDS Integers, Sequences, FiniteSets, TLC

\* ---------------------------------------------------------------- bounds
\* Handler calls (fetches of the list included) in one behaviour.
MaxOps == 3
\* Largest quantity the "+" button is pressed up to.
MaxQty == 2
\* Handler calls in one behaviour of SpecLoads.
MaxLoadOps == 4
\* Handler calls in one behaviour of SpecDuplicates.
MaxDupOps == 5
\* Pulls to refresh, presses of a trash button, and presses of a quantity button, in
\* one behaviour of SpecDuplicates.
MaxDupRefreshes == 1
MaxDupDeletes == 1
MaxDupQuantities == 2
\* Handler calls (list fetches) in one behaviour of SpecSections.
MaxSectionOps == 2
\* Receipts in one response of the receipts endpoint.
MaxReceipts == 3
\* Handler calls in one behaviour of SpecToggles and of SpecQuantities.
MaxItemOps == 4
\* Largest quantity the "+" button is pressed up to in SpecQuantities.
MaxItemQty == 3
\* Handler calls in one behaviour of SpecBulk.
MaxBulkOps == 3
\* Handler calls in one behaviour of SpecCollapse.
MaxCollapseOps == 3
\* Handler calls in one behaviour of SpecAdd, the reload after an add included.
MaxAddOps == 3

\* ------------------------------------------------------------ data model
\* The literal 'כללי', the section title of an item with an empty category.
General == "general"

\* The ids of the items the server knows, in the key order of its response.
ItemOrder == <<"a", "b", "c">>

ItemIds == {ItemOrder[k] : k \in DOMAIN ItemOrder}

NameOf(id) == CASE id = "a" -> "apple" [] id = "b" -> "bread" [] OTHER -> "cheese"

\* "a" has the empty category, "b" the literal one: both are shown under General.
CategoryOf(id) == CASE id = "a" -> "" [] id = "b" -> General [] OTHER -> "dairy"

ListItem(id, q, d) ==
  [id |-> id, name |-> NameOf(id), quantity |-> q, category |-> CategoryOf(id), done |-> d]

\* item.category || 'כללי'
Title(item) == IF item.category = "" THEN General ELSE item.category

\* The snackbar: null, or a message of type 'success' or 'error' (the text is not modelled).
NoSnack == [type |-> "none"]

Snack(type) == [type |-> type]

VARIABLES
  isLoading, isRefreshing, showRefreshLottie, error, items, snack,
  collapsedCategories, deletingCategories,
  rows,      \* per item id: is its ListItemRow mounted, and the `items` its first render closed over
  ops,       \* the handler calls made so far, each with its captured values and its position
  server,    \* the remote list: per item id, present / name / quantity / category / done
  categorizedItems, \* the useMemo value of the last render: the sections, or a thrown TypeError
  receiptsPage, \* the receipts screen: isLoading, error, receipts and the useMemo value sections
  addForm,   \* the add modal: modalVisible, addName, addQuantity, addCategory, addLoading, showAddAnim
  disturbed, \* history: per call, has another call's step changed the local entries of its item
  atCall,    \* history: per call, the local list and the pressed entry's fields when it was made
  last       \* history: the handler step just taken, with the list and the call before it

uiVars == <<isLoading, isRefreshing, showRefreshLottie, error, snack,
            collapsedCategories, deletingCategories>>

vars == <<isLoading, isRefreshing, showRefreshLottie, error, items, snack,
          collapsedCategories, deletingCategories, rows, ops, server, categorizedItems,
          receiptsPage, addForm, disturbed, atCall, last>>

\* ------------------------------------------------------- sequence helpers
\* Array.prototype.find: a sequence holding the first match, or nothing (undefined).
Find(s, id) ==
  LET hit(x) == x.id = id
      f == SelectSeq(s, hit)
  IN IF f = <<>> THEN <<>> ELSE <<f[1]>>

\* The local entries with this id, in list order.
Entries(s, id) ==
  LET hit(x) == x.id = id IN SelectSeq(s, hit)

Without(s, id) ==
  LET keep(x) == x.id # id IN SelectSeq(s, keep)

InCategory(s, categoryTitle) ==
  LET hit(x) == Title(x) = categoryTitle IN SelectSeq(s, hit)

NotInCategory(s, categoryTitle) ==
  LET keep(x) == Title(x) # categoryTitle IN SelectSeq(s, keep)

SetDone(s, id, d) ==
  [k \in DOMAIN s |-> IF s[k].id = id THEN [s[k] EXCEPT !.done = d] ELSE s[k]]

SetQuantity(s, id, q) ==
  [k \in DOMAIN s |-> IF s[k].id = id THEN [s[k] EXCEPT !.quantity = q] ELSE s[k]]

\* The section titles of categorizedItems.
Titles(s) == {Title(s[k]) : k \in DOMAIN s}

NotDoneCount(s, categoryTitle) ==
  Cardinality({k \in DOMAIN s : Title(s[k]) = categoryTitle /\ ~s[k].done})

\* ------------------------------------------------------------- the server
\* One value of the response object of GET /api/list, as Object.values sees it.
Entry(tp, isNull, hasId, val) == [typeof |-> tp, isNull |-> isNull, hasId |-> hasId, val |-> val]

NoItem == [id |-> "", name |-> "", quantity |-> 0, category |-> "", done |-> FALSE]

RECURSIVE ServerItems(_, _)
ServerItems(srv, k) ==
  IF k > Len(ItemOrder) THEN <<>>
  ELSE LET id == ItemOrder[k]
       IN (IF srv[id].present
             THEN <<Entry("object", FALSE, TRUE,
                          [ListItem(id, srv[id].quantity, srv[id].done) EXCEPT
                             !.name = srv[id].name, !.category = srv[id].category])>>
             ELSE <<>>) \o ServerItems(srv, k + 1)

\* The items keyed by id, then the `suggestions` array and the `categories` object the
\* same endpoint returns: both are objects without an `id` key.
Payload(srv) ==
  ServerItems(srv, 1)
    \o <<Entry("object", FALSE, FALSE, NoItem), Entry("object", FALSE, FALSE, NoItem)>>

\* Mutant of IsListItem: the filter without its `'id' in item` test.
IsObject(e) == e.typeof = "object" /\ ~e.isNull

\* Object.values(data).filter(item => typeof item === 'object' && item !== null && 'id' in item)
IsListItem(e) == e.typeof = "object" /\ ~e.isNull /\ e.hasId

ItemsArray(payload) ==
  LET kept == SelectSeq(payload, IsListItem)
  IN [k \in DOMAIN kept |-> kept[k].val]

\* A request: the endpoint under /api/list and the JSON body.
Request(endpoint, itemID, quantity) ==
  [endpoint |-> endpoint, itemID |-> itemID, quantity |-> quantity]

\* The body of POST /api/list/add.
AddRequest(item, quantity, category) ==
  [endpoint |-> "add", itemID |-> "", quantity |-> quantity, item |-> item,
   category |-> category]

\* The server assigns the id of a new item: here the first id that is free.
FreeIds(srv) == {k \in DOMAIN ItemOrder : ~srv[ItemOrder[k]].present}

NewId(srv) == ItemOrder[CHOOSE k \in FreeIds(srv) : \A j \in FreeIds(srv) : k <= j]

\* What the server does with a request it accepts.
Apply(srv, req) ==
  CASE req.endpoint = "done" -> [srv EXCEPT ![req.itemID].done = TRUE]
    [] req.endpoint = "undone" -> [srv EXCEPT ![req.itemID].done = FALSE]
    [] req.endpoint = "remove" -> [srv EXCEPT ![req.itemID].present = FALSE]
    [] req.endpoint = "quantity" -> [srv EXCEPT ![req.itemID].quantity = req.quantity]
    [] req.endpoint = "add" ->
         [srv EXCEPT ![NewId(srv)] = [present |-> TRUE, name |-> req.item,
                                      quantity |-> req.quantity,
                                      category |-> req.category, done |-> FALSE]]
    [] OTHER -> srv

\* How a request can end: an OK response (the request applied), a non-OK response
\* (not applied), or a network error.  The error is taken to hit the response of a
\* request the server has applied: an error that hits the request itself leaves the
\* state a non-OK response leaves, and the handlers catch both the same way.
Outcomes == {"ok", "non_ok", "network_error"}

\* --------------------------------------------------------- handler calls
BaseOp ==
  [kind |-> "", phase |-> "sent", itemId |-> "", doneStatus |-> FALSE, quantity |-> 0,
   categoryTitle |-> "", isInitialLoad |-> FALSE,
   itemToDelete |-> <<>>, prevItems |-> <<>>, prevQuantity |-> 0,
   itemsInCategory |-> <<>>, idx |-> 0,
   isAddMore |-> FALSE, addName |-> "", items |-> <<>>,
   requests |-> <<>>, responses |-> <<>>, resp |-> "none", payload |-> <<>>]

\* A call that has returned: its closure is gone, only its kind is kept.
DoneOp(op) == [BaseOp EXCEPT !.kind = op.kind, !.phase = "done"]

NoCall == [items |-> <<>>, entry |-> NoItem]

\* The history of a row button's call: the entry that was pressed.
Pressed(item) == [items |-> <<>>, entry |-> item]

\* A behaviour makes fewer handler calls than its specification's limit.
CanCall(limit) == Len(ops) < limit

NoLast == [action |-> "", op |-> 0, before |-> <<>>, collapsed |-> {}, call |-> NoCall,
           disturbed |-> FALSE, rec |-> BaseOp]

Replied(i, kind) == i \in DOMAIN ops /\ ops[i].kind = kind /\ ops[i].phase = "replied"

\* -------------------------------------------------------------- rendering
\* The early returns of the render function: which screen is shown.
View(loading, refreshing, lottie, err, its) ==
  IF loading \/ (refreshing /\ lottie) THEN "loading"
  ELSE IF err # "null" THEN "error"
  ELSE IF Len(its) = 0 THEN "empty"
  ELSE "list"

CurrentView == View(isLoading, isRefreshing, showRefreshLottie, error, items)

\* AnimatedListItemRow renders a ListItemRow only in an open section of the list.
RowVisible(item) == CurrentView = "list" /\ Title(item) \notin collapsedCategories

\* ListItemRow's panResponder is created by its first render (useRef) and keeps
\* that render's onDelete, which closed over that render's `items`.
Render(rws, its, coll, view) ==
  [id \in ItemIds |->
     IF view = "list" /\ Entries(its, id) # <<>> /\ Title(Entries(its, id)[1]) \notin coll
       THEN IF rws[id].mounted THEN rws[id] ELSE [mounted |-> TRUE, items |-> its]
       ELSE [mounted |-> FALSE, items |-> <<>>]]

\* ------------------------------------------------------- categorizedItems
\* The property names the accumulator of the reduce, a plain {}, inherits from
\* Object.prototype: acc[category] is truthy for them before anything is stored.
Inherited == {"constructor"}

\* The strings of the model in the order of String.prototype.localeCompare
\* (the empty string collates first; General stands for a Hebrew word, which
\* collates after the Latin ones).
LocaleOrder == <<"", "apple", "bread", "cheese", "constructor", "dairy", General>>

\* a.localeCompare(b): negative, zero or positive.
LocaleCompare(a, b) ==
  LET rank(x) == CHOOSE k \in DOMAIN LocaleOrder : LocaleOrder[k] = x
  IN rank(a) - rank(b)

\* Array.prototype.sort((a, b) => a.name.localeCompare(b.name)): a stable sort.
RECURSIVE SortByName(_)
SortByName(s) ==
  IF s = <<>> THEN <<>>
  ELSE LET x == s[Len(s)]
           rest == SortByName(SubSeq(s, 1, Len(s) - 1))
           notAfter(y) == LocaleCompare(y.name, x.name) <= 0
           after(y) == LocaleCompare(y.name, x.name) > 0
       IN SelectSeq(rest, notAfter) \o <<x>> \o SelectSeq(rest, after)

\* Array.prototype.sort((a, b) => a.title.localeCompare(b.title)).
RECURSIVE SortByTitle(_)
SortByTitle(s) ==
  IF s = <<>> THEN <<>>
  ELSE LET x == s[Len(s)]
           rest == SortByTitle(SubSeq(s, 1, Len(s) - 1))
           notAfter(y) == LocaleCompare(y.title, x.title) <= 0
           after(y) == LocaleCompare(y.title, x.title) > 0
       IN SelectSeq(rest, notAfter) \o <<x>> \o SelectSeq(rest, after)

\* Object.keys(grouped): the categories in the order the reduce met them first.
RECURSIVE GroupedKeys(_)
GroupedKeys(s) ==
  IF s = <<>> THEN <<>>
  ELSE LET keys == GroupedKeys(SubSeq(s, 1, Len(s) - 1))
           category == Title(s[Len(s)])
       IN IF \E k \in DOMAIN keys : keys[k] = category THEN keys ELSE Append(keys, category)

\* Mutant of SectionOf: the whole group sorted by name, done or not.
SectionByName(s, category) ==
  LET isNotDone(i) == ~i.done
  IN [title |-> category, data |-> SortByName(InCategory(s, category)),
      notDoneCount |-> Len(SelectSeq(InCategory(s, category), isNotDone))]

\* One section: the not-done items by name, then the done items by name.
SectionOf(s, category) ==
  LET isNotDone(i) == ~i.done
      isDone(i) == i.done
      notDone == SelectSeq(InCategory(s, category), isNotDone)
      done == SelectSeq(InCategory(s, category), isDone)
  IN [title |-> category, data |-> SortByName(notDone) \o SortByName(done),
      notDoneCount |-> Len(notDone)]

\* The useMemo body.  For a category that names an inherited property the reduce
\* finds acc[category] truthy, skips the `= []`, and acc[category].push throws.
CategorizedItems(s) ==
  IF \E k \in DOMAIN s : Title(s[k]) \in Inherited
    THEN [threw |-> TRUE, sections |-> <<>>]
    ELSE LET keys == GroupedKeys(s)
         IN [threw |-> FALSE,
             sections |-> SortByTitle([k \in DOMAIN keys |-> SectionOf(s, keys[k])])]

\* The end of every step: the re-render, and the history of who touched what.
AfterStep(actor, action) ==
  /\ categorizedItems' = CategorizedItems(items')
  /\ UNCHANGED receiptsPage
  /\ last' = IF action = "" THEN NoLast
             ELSE IF actor \in DOMAIN ops
               THEN [action |-> action, op |-> actor, before |-> items,
                     collapsed |-> collapsedCategories, call |-> atCall[actor],
                     disturbed |-> disturbed[actor], rec |-> ops[actor]]
             ELSE IF actor = 0
               THEN [NoLast EXCEPT !.action = action, !.before = items,
                                   !.collapsed = collapsedCategories]
               ELSE [action |-> action, op |-> actor, before |-> items,
                     collapsed |-> collapsedCategories, call |-> atCall'[actor],
                     disturbed |-> FALSE, rec |-> ops'[actor]]
  /\ rows' = Render(rows, items', collapsedCategories',
                    View(isLoading', isRefreshing', showRefreshLottie', error', items'))
  /\ disturbed' =
       [i \in DOMAIN ops' |->
          IF ops'[i].phase = "done" \/ i \notin DOMAIN ops THEN FALSE
          ELSE IF i = actor THEN disturbed[i]
          ELSE disturbed[i] \/ Entries(items, ops[i].itemId) # Entries(items', ops[i].itemId)]

\* The end of a step of a handler that does not touch the add modal's state.
After(actor, action) ==
  /\ UNCHANGED addForm
  /\ AfterStep(actor, action)

\* showSnack: the message's type; neither its text nor the timer that hides it is modelled.
ShowSnack(type) == snack' = Snack(type)

\* -------------------------------------------------------- receipts screen
\* A company or a city is a text, modelled as its words; a createdDate is a string.
Companies == {<<"A">>, <<"A", "-", "B">>}

Cities == {<<"C">>, <<"B", "-", "C">>}

CreatedDates == {"d1", "d2", "d2+00:00", "d3"}

\* new Date(iso).getTime(): two spellings of one instant give one time value.
GetTime(iso) == CASE iso = "d1" -> 1 [] iso = "d3" -> 3 [] OTHER -> 2

Totals == {1, 2}

Receipts == [city : Cities, company : Companies, createdDate : CreatedDates, total : Totals]

\* `${r.company} - ${r.city}`: the two texts around a dash.
Label(r) == r.company \o <<"-">> \o r.city

\* [...receipts].sort((a, b) => time(b) - time(a)): a stable sort, latest first.
RECURSIVE SortByDate(_)
SortByDate(s) ==
  IF s = <<>> THEN <<>>
  ELSE LET x == s[Len(s)]
           rest == SortByDate(SubSeq(s, 1, Len(s) - 1))
           notAfter(y) == GetTime(x.createdDate) - GetTime(y.createdDate) <= 0
           after(y) == GetTime(x.createdDate) - GetTime(y.createdDate) > 0
       IN SelectSeq(rest, notAfter) \o <<x>> \o SelectSeq(rest, after)

\* The keys of the Map, in insertion order.
RECURSIVE Labels(_)
Labels(s) ==
  IF s = <<>> THEN <<>>
  ELSE LET keys == Labels(SubSeq(s, 1, Len(s) - 1))
           label == Label(s[Len(s)])
       IN IF \E k \in DOMAIN keys : keys[k] = label THEN keys ELSE Append(keys, label)

\* data.reduce((acc, r) => acc + r.total, 0); the totals are whole numbers here.
RECURSIVE SumOfTotals(_)
SumOfTotals(data) ==
  IF data = <<>> THEN 0
  ELSE SumOfTotals(SubSeq(data, 1, Len(data) - 1)) + data[Len(data)].total

\* Mutant of GroupByCompanyCity: the receipts are grouped unsorted.
GroupUnsorted(receipts) ==
  LET keys == Labels(receipts)
  IN [n \in DOMAIN keys |->
        LET labelled(r) == Label(r) = keys[n]
            data == SelectSeq(receipts, labelled)
        IN [title |-> keys[n], data |-> data, sum |-> SumOfTotals(data)]]

GroupByCompanyCity(receipts) ==
  LET sorted == SortByDate(receipts)
      keys == Labels(sorted)
  IN [n \in DOMAIN keys |->
        LET labelled(r) == Label(r) = keys[n]
            data == SelectSeq(sorted, labelled)
        IN [title |-> keys[n], data |-> data, sum |-> SumOfTotals(data)]]

InitReceiptsPage == [isLoading |-> TRUE, error |-> "null", receipts |-> <<>>, sections |-> <<>>]

\* The responses of the receipts endpoint: arrays of up to MaxReceipts receipts.
ReceiptLists == UNION {[1..n -> Receipts] : n \in 0..MaxReceipts}

\* The mount effect's load() of the receipts screen with an OK response, and the
\* render that follows (a refresh runs the same code on the next response).
ReceiptsLoadOk(data) ==
  /\ receiptsPage.isLoading
  /\ receiptsPage' = [isLoading |-> FALSE, error |-> "null", receipts |-> data,
                      sections |-> GroupByCompanyCity(data)]
  /\ UNCHANGED <<isLoading, isRefreshing, showRefreshLottie, error, items, snack,
                 collapsedCategories, deletingCategories, rows, ops, server,
                 categorizedItems, addForm, disturbed, atCall, last>>

\* The same load() with a failing response: the catch and the finally.
ReceiptsLoadFail ==
  /\ receiptsPage.isLoading
  /\ receiptsPage' = [receiptsPage EXCEPT !.isLoading = FALSE, !.error = "load_failed"]
  /\ UNCHANGED <<isLoading, isRefreshing, showRefreshLottie, error, items, snack,
                 collapsedCategories, deletingCategories, rows, ops, server,
                 categorizedItems, addForm, disturbed, atCall, last>>

\* ------------------------------------------------------------ add modal
\* useState(false), useState(''), useState('1'), useState(''), useState(false), useState(false)
InitAddForm ==
  [modalVisible |-> FALSE, addName |-> "", addQuantity |-> "1", addCategory |-> "",
   addLoading |-> FALSE, showAddAnim |-> FALSE]

\* ------------------------------------------------------------------ Init
\* The component after its first render and its mount effect, load(true).
LoadOp(isInitialLoad) ==
  [BaseOp EXCEPT !.kind = "load", !.isInitialLoad = isInitialLoad,
                 !.requests = <<Request("list", "", 0)>>]

InitServers ==
  {[id \in ItemIds |-> [present |-> TRUE, name |-> NameOf(id), quantity |-> 1,
                        category |-> CategoryOf(id), done |-> FALSE]]}

Init ==
  /\ isLoading = TRUE
  /\ isRefreshing = FALSE
  /\ showRefreshLottie = FALSE
  /\ error = "null"
  /\ items = <<>>
  /\ snack = NoSnack
  /\ collapsedCategories = {}
  /\ deletingCategories = {}
  /\ rows = [id \in ItemIds |-> [mounted |-> FALSE, items |-> <<>>]]
  /\ ops = <<LoadOp(TRUE)>>
  /\ server \in InitServers
  /\ categorizedItems = CategorizedItems(<<>>)
  /\ receiptsPage = InitReceiptsPage
  /\ addForm = InitAddForm
  /\ disturbed = <<FALSE>>
  /\ atCall = <<NoCall>>
  /\ last = NoLast

\* ------------------------------------------------------------ the network
ServerProcess(i, outcome) ==
  /\ i \in DOMAIN ops
  /\ ops[i].phase = "sent"
  /\ LET req == ops[i].requests[Len(ops[i].requests)]
     IN /\ (req.endpoint = "add" /\ outcome # "non_ok") => FreeIds(server) # {}
        /\ server' = IF outcome # "non_ok" THEN Apply(server, req) ELSE server
        /\ ops' = [ops EXCEPT ![i].phase = "replied", ![i].resp = outcome,
                              ![i].responses = Append(@, outcome),
                              ![i].payload = IF req.endpoint = "list" /\ outcome = "ok"
                                               THEN Payload(server) ELSE <<>>]
  /\ UNCHANGED <<uiVars, items, atCall>>
  /\ After(0, "")

\* ------------------------------------------------------------------ load
\* load up to its await: setError(null) and the fetch.
LoadCall(isInitialLoad) ==
  /\ error' = "null"
  /\ ops' = Append(ops, LoadOp(isInitialLoad))
  /\ atCall' = Append(atCall, NoCall)
  /\ UNCHANGED <<isLoading, items, snack, collapsedCategories, deletingCategories, server>>

\* The retry button of the error screen.
Retry(limit) ==
  /\ CurrentView = "error"
  /\ CanCall(limit)
  /\ LoadCall(TRUE)
  /\ UNCHANGED <<isRefreshing, showRefreshLottie>>
  /\ After(Len(ops) + 1, "Retry")

\* Pull-to-refresh on the list.
OnRefresh(limit) ==
  /\ CurrentView = "list"
  /\ CanCall(limit)
  /\ isRefreshing' = TRUE
  /\ showRefreshLottie' = TRUE
  /\ LoadCall(FALSE)
  /\ After(Len(ops) + 1, "OnRefresh")

\* The 1600 ms timers of the refresh animation (the effect's and onRefresh's).
RefreshTimeout ==
  /\ isRefreshing
  /\ isRefreshing' = FALSE
  /\ showRefreshLottie' = FALSE
  /\ UNCHANGED <<isLoading, error, items, snack, collapsedCategories, deletingCategories,
                 ops, server, atCall>>
  /\ After(0, "")

\* Mutant of LoadOk: a response is dropped when a fetch sent later has been handled.
LoadOkIfLatest(i) ==
  /\ Replied(i, "load")
  /\ ops[i].resp = "ok"
  /\ LET itemsArray == ItemsArray(ops[i].payload)
         stale == \E j \in DOMAIN ops : j > i /\ ops[j].kind = "load" /\ ops[j].phase = "done"
     IN /\ collapsedCategories' =
             IF ops[i].isInitialLoad /\ ~stale THEN Titles(itemsArray) ELSE collapsedCategories
        /\ items' = IF stale THEN items ELSE itemsArray
  /\ isLoading' = FALSE
  /\ ops' = [ops EXCEPT ![i] = DoneOp(ops[i])]
  /\ UNCHANGED <<isRefreshing, showRefreshLottie, error, snack, deletingCategories,
                 server, atCall>>
  /\ After(i, "LoadOk")

\* Mutant of LoadOk: every fetch collapses all sections.
LoadOkCollapses(i) ==
  /\ Replied(i, "load")
  /\ ops[i].resp = "ok"
  /\ collapsedCategories' = Titles(ItemsArray(ops[i].payload))
  /\ items' = ItemsArray(ops[i].payload)
  /\ isLoading' = FALSE
  /\ ops' = [ops EXCEPT ![i] = DoneOp(ops[i])]
  /\ UNCHANGED <<isRefreshing, showRefreshLottie, error, snack, deletingCategories,
                 server, atCall>>
  /\ After(i, "LoadOk")

\* load after an OK response.
LoadOk(i) ==
  /\ Replied(i, "load")
  /\ ops[i].resp = "ok"
  /\ LET itemsArray == ItemsArray(ops[i].payload)
     IN /\ collapsedCategories' =
             IF ops[i].isInitialLoad THEN Titles(itemsArray) ELSE collapsedCategories
        /\ items' = itemsArray
  /\ isLoading' = FALSE
  /\ ops' = [ops EXCEPT ![i] = DoneOp(ops[i])]
  /\ UNCHANGED <<isRefreshing, showRefreshLottie, error, snack, deletingCategories,
                 server, atCall>>
  /\ After(i, "LoadOk")

\* Mutant of LoadFail: the catch also empties the list.
LoadFailClears(i) ==
  /\ Replied(i, "load")
  /\ ops[i].resp # "ok"
  /\ error' = "load_failed"
  /\ isLoading' = FALSE
  /\ items' = <<>>
  /\ ops' = [ops EXCEPT ![i] = DoneOp(ops[i])]
  /\ UNCHANGED <<isRefreshing, showRefreshLottie, snack, collapsedCategories,
                 deletingCategories, server, atCall>>
  /\ After(i, "LoadFail")

\* load after a non-OK response or a network error: the catch and the finally.
LoadFail(i) ==
  /\ Replied(i, "load")
  /\ ops[i].resp # "ok"
  /\ error' = "load_failed"
  /\ isLoading' = FALSE
  /\ ops' = [ops EXCEPT ![i] = DoneOp(ops[i])]
  /\ UNCHANGED <<isRefreshing, showRefreshLottie, items, snack, collapsedCategories,
                 deletingCategories, server, atCall>>
  /\ After(i, "LoadFail")

\* -------------------------------------------------------- toggleItemDone
\* Mutant of ToggleItemDone: the request is sent without the optimistic update.
ToggleItemDoneLate(k, limit) ==
  /\ k \in DOMAIN items
  /\ RowVisible(items[k])
  /\ CanCall(limit)
  /\ ops' = Append(ops, [BaseOp EXCEPT
               !.kind = "toggle", !.itemId = items[k].id, !.doneStatus = ~items[k].done,
               !.requests = <<Request(IF ~items[k].done THEN "done" ELSE "undone", items[k].id, 0)>>])
  /\ atCall' = Append(atCall, Pressed(items[k]))
  /\ UNCHANGED <<uiVars, items, server>>
  /\ After(Len(ops) + 1, "ToggleItemDone")

\* The checkbox of a visible row: onToggleDone(item.id, !item.done), up to the fetch.
ToggleItemDone(k, limit) ==
  /\ k \in DOMAIN items
  /\ RowVisible(items[k])
  /\ CanCall(limit)
  /\ LET itemId == items[k].id
         doneStatus == ~items[k].done
     IN /\ items' = SetDone(items, itemId, doneStatus)
        /\ ops' = Append(ops, [BaseOp EXCEPT
                     !.kind = "toggle", !.itemId = itemId, !.doneStatus = doneStatus,
                     !.requests = <<Request(IF doneStatus THEN "done" ELSE "undone", itemId, 0)>>])
  /\ atCall' = Append(atCall, Pressed(items[k]))
  /\ UNCHANGED <<uiVars, server>>
  /\ After(Len(ops) + 1, "ToggleItemDone")

ToggleOk(i) ==
  /\ Replied(i, "toggle")
  /\ ops[i].resp = "ok"
  /\ ShowSnack("success")
  /\ ops' = [ops EXCEPT ![i] = DoneOp(ops[i])]
  /\ atCall' = [atCall EXCEPT ![i] = NoCall]
  /\ UNCHANGED <<isLoading, isRefreshing, showRefreshLottie, error, items,
                 collapsedCategories, deletingCategories, server>>
  /\ After(i, "ToggleOk")

\* Mutant of ToggleFail: the catch shows the error and leaves the list as it is.
ToggleFailKeeps(i) ==
  /\ Replied(i, "toggle")
  /\ ops[i].resp # "ok"
  /\ ShowSnack("error")
  /\ ops' = [ops EXCEPT ![i] = DoneOp(ops[i])]
  /\ atCall' = [atCall EXCEPT ![i] = NoCall]
  /\ UNCHANGED <<isLoading, isRefreshing, showRefreshLottie, error, items,
                 collapsedCategories, deletingCategories, server>>
  /\ After(i, "ToggleFail")

\* Mutant of ToggleFail: the catch sends the request again.
ToggleFailRetries(i) ==
  /\ Replied(i, "toggle")
  /\ ops[i].resp # "ok"
  /\ ShowSnack("error")
  /\ ops' = [ops EXCEPT ![i].phase = "sent", ![i].resp = "none",
                        ![i].requests = Append(@, @[1])]
  /\ UNCHANGED <<isLoading, isRefreshing, showRefreshLottie, error, items,
                 collapsedCategories, deletingCategories, server, atCall>>
  /\ After(i, "ToggleFail")

\* The catch: the rollback writes the negation of the requested status.
ToggleFail(i) ==
  /\ Replied(i, "toggle")
  /\ ops[i].resp # "ok"
  /\ items' = SetDone(items, ops[i].itemId, ~ops[i].doneStatus)
  /\ ShowSnack("error")
  /\ ops' = [ops EXCEPT ![i] = DoneOp(ops[i])]
  /\ atCall' = [atCall EXCEPT ![i] = NoCall]
  /\ UNCHANGED <<isLoading, isRefreshing, showRefreshLottie, error,
                 collapsedCategories, deletingCategories, server>>
  /\ After(i, "ToggleFail")

\* ------------------------------------------------------------ deleteItem
\* deleteItem up to the fetch, run by the instance that closed over closureItems.
DeleteItemCall(itemId, closureItems, pressed) ==
  /\ items' = Without(closureItems, itemId)
  /\ ops' = Append(ops, [BaseOp EXCEPT
               !.kind = "delete", !.itemId = itemId,
               !.itemToDelete = Find(closureItems, itemId), !.prevItems = closureItems,
               !.requests = <<Request("remove", itemId, 0)>>])
  /\ atCall' = Append(atCall, Pressed(pressed))
  /\ UNCHANGED <<uiVars, server>>
  /\ After(Len(ops) + 1, "DeleteItem")

\* The trash button of a visible row (disabled on a done item): the current onDelete.
DeleteItem(k, limit) ==
  /\ k \in DOMAIN items
  /\ RowVisible(items[k])
  /\ ~items[k].done
  /\ CanCall(limit)
  /\ DeleteItemCall(items[k].id, items, items[k])

\* The swipe-left gesture of a mounted row: the onDelete of the row's first render.
SwipeDelete(k, limit) ==
  /\ k \in DOMAIN items
  /\ RowVisible(items[k])
  /\ rows[items[k].id].mounted
  /\ CanCall(limit)
  /\ DeleteItemCall(items[k].id, rows[items[k].id].items, items[k])

DeleteOk(i) ==
  /\ Replied(i, "delete")
  /\ ops[i].resp = "ok"
  /\ ops' = [ops EXCEPT ![i] = DoneOp(ops[i])]
  /\ atCall' = [atCall EXCEPT ![i] = NoCall]
  /\ UNCHANGED <<uiVars, items, server>>
  /\ After(i, "DeleteOk")

\* The catch: the captured item is appended to the current list.
DeleteFail(i) ==
  /\ Replied(i, "delete")
  /\ ops[i].resp # "ok"
  /\ items' = IF ops[i].itemToDelete # <<>> THEN items \o ops[i].itemToDelete ELSE items
  /\ ShowSnack("error")
  /\ ops' = [ops EXCEPT ![i] = DoneOp(ops[i])]
  /\ atCall' = [atCall EXCEPT ![i] = NoCall]
  /\ UNCHANGED <<isLoading, isRefreshing, showRefreshLottie, error,
                 collapsedCategories, deletingCategories, server>>
  /\ After(i, "DeleteFail")

\* ---------------------------------------------------- updateItemQuantity
\* The + and - buttons of a visible row (disabled on a done item), up to the fetch.
UpdateItemQuantity(k, quantity, limit) ==
  /\ k \in DOMAIN items
  /\ RowVisible(items[k])
  /\ ~items[k].done
  /\ CanCall(limit)
  /\ quantity \in {items[k].quantity + 1,
                   IF items[k].quantity - 1 > 1 THEN items[k].quantity - 1 ELSE 1}
  /\ LET itemId == items[k].id
         found == Find(items, itemId)
     IN /\ items' = SetQuantity(items, itemId, quantity)
        /\ ops' = Append(ops, [BaseOp EXCEPT
                     !.kind = "quantity", !.itemId = itemId, !.quantity = quantity,
                     !.prevQuantity = IF found = <<>> THEN 0 ELSE found[1].quantity,
                     !.requests = <<Request("quantity", itemId, quantity)>>])
  /\ atCall' = Append(atCall, Pressed(items[k]))
  /\ UNCHANGED <<uiVars, server>>
  /\ After(Len(ops) + 1, "UpdateItemQuantity")

QuantityOk(i) ==
  /\ Replied(i, "quantity")
  /\ ops[i].resp = "ok"
  /\ ShowSnack("success")
  /\ ops' = [ops EXCEPT ![i] = DoneOp(ops[i])]
  /\ atCall' = [atCall EXCEPT ![i] = NoCall]
  /\ UNCHANGED <<isLoading, isRefreshing, showRefreshLottie, error, items,
                 collapsedCategories, deletingCategories, server>>
  /\ After(i, "QuantityOk")

\* The catch: the captured quantity (0 stands for undefined) is written back.
QuantityFail(i) ==
  /\ Replied(i, "quantity")
  /\ ops[i].resp # "ok"
  /\ items' = IF ops[i].prevQuantity # 0
                THEN SetQuantity(items, ops[i].itemId, ops[i].prevQuantity) ELSE items
  /\ ShowSnack("error")
  /\ ops' = [ops EXCEPT ![i] = DoneOp(ops[i])]
  /\ atCall' = [atCall EXCEPT ![i] = NoCall]
  /\ UNCHANGED <<isLoading, isRefreshing, showRefreshLottie, error,
                 collapsedCategories, deletingCategories, server>>
  /\ After(i, "QuantityFail")

\* --------------------------------------------------- deleteAllInCategory
\* The "delete all" button of an open section with a not-done item, up to the first fetch.
DeleteAllInCategory(categoryTitle, limit) ==
  /\ CurrentView = "list"
  /\ CanCall(limit)
  /\ categoryTitle \in Titles(items)
  /\ categoryTitle \notin collapsedCategories
  /\ NotDoneCount(items, categoryTitle) > 0
  /\ categoryTitle \notin deletingCategories
  /\ deletingCategories' = deletingCategories \cup {categoryTitle}
  /\ items' = NotInCategory(items, categoryTitle)
  /\ LET itemsInCategory == InCategory(items, categoryTitle)
     IN ops' = Append(ops, [BaseOp EXCEPT
                  !.kind = "bulk", !.categoryTitle = categoryTitle, !.prevItems = items,
                  !.itemsInCategory = itemsInCategory, !.idx = 1,
                  !.requests = <<Request("remove", itemsInCategory[1].id, 0)>>])
  /\ atCall' = Append(atCall, [items |-> items, entry |-> NoItem])
  /\ UNCHANGED <<isLoading, isRefreshing, showRefreshLottie, error, snack,
                 collapsedCategories, server>>
  /\ After(Len(ops) + 1, "DeleteAllInCategory")

\* Mutant of DeleteAllNext: the loop goes on to the next item whatever the response.
DeleteAllNextAnyway(i) ==
  /\ Replied(i, "bulk")
  /\ ops[i].idx < Len(ops[i].itemsInCategory)
  /\ ops' = [ops EXCEPT
       ![i].idx = @ + 1, ![i].phase = "sent", ![i].resp = "none",
       ![i].requests = Append(@, Request("remove", ops[i].itemsInCategory[ops[i].idx + 1].id, 0))]
  /\ UNCHANGED <<uiVars, items, server, atCall>>
  /\ After(i, "DeleteAllNext")

\* An OK response with items left: the 50 ms pause, then the next item's fetch.
DeleteAllNext(i) ==
  /\ Replied(i, "bulk")
  /\ ops[i].resp = "ok"
  /\ ops[i].idx < Len(ops[i].itemsInCategory)
  /\ ops' = [ops EXCEPT
       ![i].idx = @ + 1, ![i].phase = "sent", ![i].resp = "none",
       ![i].requests = Append(@, Request("remove", ops[i].itemsInCategory[ops[i].idx + 1].id, 0))]
  /\ UNCHANGED <<uiVars, items, server, atCall>>
  /\ After(i, "DeleteAllNext")

\* The OK response of the last item: the success snackbar and the finally.
DeleteAllOk(i) ==
  /\ Replied(i, "bulk")
  /\ ops[i].resp = "ok"
  /\ ops[i].idx = Len(ops[i].itemsInCategory)
  /\ ShowSnack("success")
  /\ deletingCategories' = deletingCategories \ {ops[i].categoryTitle}
  /\ ops' = [ops EXCEPT ![i] = DoneOp(ops[i])]
  /\ atCall' = [atCall EXCEPT ![i] = NoCall]
  /\ UNCHANGED <<isLoading, isRefreshing, showRefreshLottie, error, items,
                 collapsedCategories, server>>
  /\ After(i, "DeleteAllOk")

\* Mutant of DeleteAllFail: the catch puts back the category's items at the end of the list.
DeleteAllFailAppends(i) ==
  /\ Replied(i, "bulk")
  /\ ops[i].resp # "ok"
  /\ items' = items \o ops[i].itemsInCategory
  /\ ShowSnack("error")
  /\ deletingCategories' = deletingCategories \ {ops[i].categoryTitle}
  /\ ops' = [ops EXCEPT ![i] = DoneOp(ops[i])]
  /\ atCall' = [atCall EXCEPT ![i] = NoCall]
  /\ UNCHANGED <<isLoading, isRefreshing, showRefreshLottie, error,
                 collapsedCategories, server>>
  /\ After(i, "DeleteAllFail")

\* Mutant of DeleteAllFail: the catch without the finally.
DeleteAllFailKeepsDeleting(i) ==
  /\ Replied(i, "bulk")
  /\ ops[i].resp # "ok"
  /\ items' = ops[i].prevItems
  /\ ShowSnack("error")
  /\ ops' = [ops EXCEPT ![i] = DoneOp(ops[i])]
  /\ atCall' = [atCall EXCEPT ![i] = NoCall]
  /\ UNCHANGED <<isLoading, isRefreshing, showRefreshLottie, error,
                 collapsedCategories, deletingCategories, server>>
  /\ After(i, "DeleteAllFail")

\* A failing response: the loop ends, the catch restores the captured list, the finally.
DeleteAllFail(i) ==
  /\ Replied(i, "bulk")
  /\ ops[i].resp # "ok"
  /\ items' = ops[i].prevItems
  /\ ShowSnack("error")
  /\ deletingCategories' = deletingCategories \ {ops[i].categoryTitle}
  /\ ops' = [ops EXCEPT ![i] = DoneOp(ops[i])]
  /\ atCall' = [atCall EXCEPT ![i] = NoCall]
  /\ UNCHANGED <<isLoading, isRefreshing, showRefreshLottie, error,
                 collapsedCategories, server>>
  /\ After(i, "DeleteAllFail")

\* ------------------------------------------------------------ categories
\* A section header of the list.
ToggleCategory(categoryTitle) ==
  /\ CurrentView = "list"
  /\ categoryTitle \in Titles(items)
  /\ collapsedCategories' =
       IF categoryTitle \in collapsedCategories
         THEN collapsedCategories \ {categoryTitle}
         ELSE collapsedCategories \cup {categoryTitle}
  /\ UNCHANGED <<isLoading, isRefreshing, showRefreshLottie, error, items, snack,
                 deletingCategories, ops, server, atCall>>
  /\ After(0, "")

\* categorizedItems.map(s => s.title)
SectionTitles(memo) == {memo.sections[k].title : k \in DOMAIN memo.sections}

\* The button of ListHeader, which every screen shows.
ToggleAllCategories ==
  /\ ~categorizedItems.threw
  /\ collapsedCategories' =
       IF Cardinality(collapsedCategories) > 0 THEN {} ELSE SectionTitles(categorizedItems)
  /\ collapsedCategories' # collapsedCategories
  /\ UNCHANGED <<isLoading, isRefreshing, showRefreshLottie, error, items, snack,
                 deletingCategories, ops, server, atCall>>
  /\ After(0, "ToggleAllCategories")

\* ------------------------------------------------------------- add modal
\* The texts typed into the name, quantity and category inputs.
AddNames == {"", " ", "apple ", "cheese"}

AddQuantities == {"", "1", "2"}

AddCategories == {"", "dairy"}

\* String.prototype.trim
Trim(text) == CASE text = " " -> "" [] text = "apple " -> "apple" [] OTHER -> text

\* Number(addQuantity)
Number(text) == CASE text = "1" -> 1 [] text = "2" -> 2 [] OTHER -> 0

\* The Modal, its inputs and its buttons are part of the list screen only.
ModalShown == CurrentView = "list" /\ addForm.modalVisible

\* !addName.trim() || !addCategory.trim() || !addQuantity
AddInvalid ==
  Trim(addForm.addName) = "" \/ Trim(addForm.addCategory) = "" \/ addForm.addQuantity = ""

\* Calls of handleAddItem that have not yet issued their reload.
Reserved == Cardinality({i \in DOMAIN ops : ops[i].kind = "add" /\ ops[i].phase \in {"sent", "replied"}})

\* A behaviour has room for one more add and for the reload of every add.
CanAdd(limit) == Len(ops) + Reserved + 2 <= limit

FormUnchanged ==
  UNCHANGED <<isLoading, isRefreshing, showRefreshLottie, error, items, snack,
              collapsedCategories, deletingCategories, ops, server, atCall>>

\* The FAB.
OpenModal ==
  /\ CurrentView = "list"
  /\ ~addForm.modalVisible
  /\ addForm' = [addForm EXCEPT !.modalVisible = TRUE]
  /\ FormUnchanged
  /\ AfterStep(0, "")

\* onBackdropPress, onSwipeComplete.
CloseModal ==
  /\ ModalShown
  /\ addForm' = [addForm EXCEPT !.modalVisible = FALSE]
  /\ FormUnchanged
  /\ AfterStep(0, "")

SetAddName(text) ==
  /\ ModalShown
  /\ text # addForm.addName
  /\ addForm' = [addForm EXCEPT !.addName = text]
  /\ FormUnchanged
  /\ AfterStep(0, "")

SetAddQuantity(text) ==
  /\ ModalShown
  /\ text # addForm.addQuantity
  /\ addForm' = [addForm EXCEPT !.addQuantity = text]
  /\ FormUnchanged
  /\ AfterStep(0, "")

SetAddCategory(text) ==
  /\ ModalShown
  /\ text # addForm.addCategory
  /\ addForm' = [addForm EXCEPT !.addCategory = text]
  /\ FormUnchanged
  /\ AfterStep(0, "")

\* handleAddItem of this render, up to its first await.
AddOp(isAddMore) ==
  [BaseOp EXCEPT !.kind = "add", !.isAddMore = isAddMore,
                 !.addName = Trim(addForm.addName), !.items = items,
                 !.requests = <<AddRequest(Trim(addForm.addName), Number(addForm.addQuantity),
                                           Trim(addForm.addCategory))>>]

\* The add button: handleAddItem(false).
HandleAddItem(limit) ==
  /\ ModalShown
  /\ ~AddInvalid
  /\ ~addForm.addLoading
  /\ CanAdd(limit)
  /\ addForm' = [addForm EXCEPT !.addLoading = TRUE, !.modalVisible = FALSE,
                                !.showAddAnim = TRUE]
  /\ ops' = Append(ops, AddOp(FALSE))
  /\ atCall' = Append(atCall, NoCall)
  /\ UNCHANGED <<isLoading, isRefreshing, showRefreshLottie, error, items, snack,
                 collapsedCategories, deletingCategories, server>>
  /\ AfterStep(Len(ops) + 1, "HandleAddItem")

\* The add-another button: handleAddItem(true), which returns at once on an
\* incomplete form, and then the reset of the inputs.
AddAnother(limit) ==
  /\ ModalShown
  /\ AddInvalid \/ CanAdd(limit)
  /\ addForm' = [addForm EXCEPT !.addName = "", !.addQuantity = "1", !.addCategory = ""]
  /\ UNCHANGED <<isLoading, isRefreshing, showRefreshLottie, error, items, snack,
                 collapsedCategories, deletingCategories, server>>
  /\ IF AddInvalid
       THEN /\ addForm' # addForm
            /\ UNCHANGED <<ops, atCall>>
            /\ AfterStep(0, "")
       ELSE /\ ops' = Append(ops, AddOp(TRUE))
            /\ atCall' = Append(atCall, NoCall)
            /\ AfterStep(Len(ops) + 1, "HandleAddItem")

\* handleAddItem after an OK response: the call of load().
AddOk(i) ==
  /\ Replied(i, "add")
  /\ ops[i].resp = "ok"
  /\ error' = "null"
  /\ ops' = Append([ops EXCEPT ![i].phase = "loading", ![i].idx = Len(ops) + 1],
                   LoadOp(FALSE))
  /\ atCall' = Append(atCall, NoCall)
  /\ UNCHANGED <<isLoading, isRefreshing, showRefreshLottie, items, snack,
                 collapsedCategories, deletingCategories, server, addForm>>
  /\ AfterStep(i, "AddOk")

\* load() has returned: the 1500 ms timer is set, and the finally runs.
AddLoaded(i) ==
  /\ i \in DOMAIN ops
  /\ ops[i].kind = "add"
  /\ ops[i].phase = "loading"
  /\ ops[ops[i].idx].phase = "done"
  /\ ops' = [ops EXCEPT ![i].phase = "timer"]
  /\ addForm' = [addForm EXCEPT !.addLoading = FALSE]
  /\ UNCHANGED <<isLoading, isRefreshing, showRefreshLottie, error, items, snack,
                 collapsedCategories, deletingCategories, server, atCall>>
  /\ AfterStep(i, "AddLoaded")

\* The timer of the success path.
AddTimeout(i) ==
  /\ i \in DOMAIN ops
  /\ ops[i].kind = "add"
  /\ ops[i].phase = "timer"
  /\ ops[i].resp = "ok"
  /\ ShowSnack("success")
  /\ addForm' = [addForm EXCEPT !.showAddAnim = FALSE, !.addName = "",
                                !.addQuantity = "1", !.addCategory = ""]
  /\ ops' = [ops EXCEPT ![i] = DoneOp(ops[i])]
  /\ UNCHANGED <<isLoading, isRefreshing, showRefreshLottie, error, items,
                 collapsedCategories, deletingCategories, server, atCall>>
  /\ AfterStep(i, "AddTimeout")

\* handleAddItem after a non-OK response or a network error: the catch sets the
\* 1500 ms timer, and the finally runs.
AddFail(i) ==
  /\ Replied(i, "add")
  /\ ops[i].resp # "ok"
  /\ ops' = [ops EXCEPT ![i].phase = "timer"]
  /\ addForm' = [addForm EXCEPT !.addLoading = FALSE]
  /\ UNCHANGED <<isLoading, isRefreshing, showRefreshLottie, error, items, snack,
                 collapsedCategories, deletingCategories, server, atCall>>
  /\ AfterStep(i, "AddFail")

\* The timer of the catch: `items` and `addName` are those of the render that
\* called handleAddItem.
AddFailTimeout(i) ==
  /\ i \in DOMAIN ops
  /\ ops[i].kind = "add"
  /\ ops[i].phase = "timer"
  /\ ops[i].resp # "ok"
  /\ LET sameName(x) == Trim(x.name) = ops[i].addName
         found == SelectSeq(ops[i].items, sameName)
     IN IF found # <<>>
          THEN /\ collapsedCategories' =
                    IF Title(found[1]) \in collapsedCategories
                      THEN collapsedCategories \ {Title(found[1])}
                      ELSE collapsedCategories \cup {Title(found[1])}
               /\ addForm' = [addForm EXCEPT !.showAddAnim = FALSE, !.addLoading = FALSE]
          ELSE /\ UNCHANGED collapsedCategories
               /\ addForm' = [addForm EXCEPT !.showAddAnim = FALSE, !.addLoading = FALSE,
                                             !.modalVisible = TRUE]
  /\ ShowSnack("error")
  /\ ops' = [ops EXCEPT ![i] = DoneOp(ops[i])]
  /\ UNCHANGED <<isLoading, isRefreshing, showRefreshLottie, error, items,
                 deletingCategories, server, atCall>>
  /\ AfterStep(i, "AddFailTimeout")

\* ------------------------------------------------------------------ Next
\* The steps of the network and of the handlers after their await.
Respond ==
  \/ \E i \in 1..MaxOps, outcome \in Outcomes : ServerProcess(i, outcome)
  \/ \E i \in 1..MaxOps : LoadOk(i)
  \/ \E i \in 1..MaxOps : LoadFail(i)
  \/ \E i \in 1..MaxOps : ToggleOk(i)
  \/ \E i \in 1..MaxOps : ToggleFail(i)
  \/ \E i \in 1..MaxOps : DeleteOk(i)
  \/ \E i \in 1..MaxOps : DeleteFail(i)
  \/ \E i \in 1..MaxOps : QuantityOk(i)
  \/ \E i \in 1..MaxOps : QuantityFail(i)
  \/ \E i \in 1..MaxOps : DeleteAllNext(i)
  \/ \E i \in 1..MaxOps : DeleteAllOk(i)
  \/ \E i \in 1..MaxOps : DeleteAllFail(i)

\* What the user can do without calling a handler that fetches.
Browse ==
  \/ RefreshTimeout
  \/ \E categoryTitle \in {General, "dairy"} : ToggleCategory(categoryTitle)
  \/ ToggleAllCategories

\* The user's presses and gestures that call a fetching handler.
Call ==
  \/ Retry(MaxOps)
  \/ OnRefresh(MaxOps)
  \/ \E k \in DOMAIN items : ToggleItemDone(k, MaxOps)
  \/ \E k \in DOMAIN items : DeleteItem(k, MaxOps)
  \/ \E k \in DOMAIN items : SwipeDelete(k, MaxOps)
  \/ \E k \in DOMAIN items, quantity \in 1..MaxQty : UpdateItemQuantity(k, quantity, MaxOps)
  \/ \E categoryTitle \in {General, "dairy"} : DeleteAllInCategory(categoryTitle, MaxOps)

Next == Respond \/ Browse \/ Call

Spec == Init /\ [][Next]_vars

\* The behaviours in which the user only opens or closes the General section,
\* refreshes, retries and ticks checkboxes, with room for one more call: two
\* overlapping fetches can then see different lists on the server.
RespondLoads ==
  \/ \E i \in 1..MaxLoadOps, outcome \in Outcomes : ServerProcess(i, outcome)
  \/ \E i \in 1..MaxLoadOps : LoadOk(i)
  \/ \E i \in 1..MaxLoadOps : LoadFail(i)
  \/ \E i \in 1..MaxLoadOps : ToggleOk(i)
  \/ \E i \in 1..MaxLoadOps : ToggleFail(i)

NextLoads ==
  \/ RespondLoads
  \/ RefreshTimeout
  \/ ToggleCategory(General)
  \/ Retry(MaxLoadOps)
  \/ OnRefresh(MaxLoadOps)
  \/ \E k \in DOMAIN items : ToggleItemDone(k, MaxLoadOps)

SpecLoads == Init /\ [][NextLoads]_vars

\* The behaviours in which the user only opens or closes the General section,
\* refreshes, and presses the trash, + and - buttons of the rows of item "a", with
\* room for two more calls: a delete's rollback can then meet the item a refresh
\* has brought back, and a quantity button be pressed on the list that results.
Calls(kind) == Cardinality({i \in DOMAIN ops : ops[i].kind = kind})

RespondDuplicates ==
  \/ \E i \in 1..MaxDupOps, outcome \in {"ok", "non_ok"} : ServerProcess(i, outcome)
  \/ \E i \in 1..MaxDupOps : LoadOk(i)
  \/ \E i \in 1..MaxDupOps : LoadFail(i)
  \/ \E i \in 1..MaxDupOps : DeleteOk(i)
  \/ \E i \in 1..MaxDupOps : DeleteFail(i)
  \/ \E i \in 1..MaxDupOps : QuantityOk(i)
  \/ \E i \in 1..MaxDupOps : QuantityFail(i)

NextDuplicates ==
  \/ RespondDuplicates
  \/ RefreshTimeout
  \/ ToggleCategory(General)
  \/ Calls("load") <= MaxDupRefreshes /\ OnRefresh(MaxDupOps)
  \/ \E k \in DOMAIN items :
       items[k].id = "a" /\ Calls("delete") < MaxDupDeletes /\ DeleteItem(k, MaxDupOps)
  \/ \E k \in DOMAIN items, quantity \in 1..MaxQty :
       /\ items[k].id = "a"
       /\ Calls("quantity") < MaxDupQuantities
       /\ UpdateItemQuantity(k, quantity, MaxDupOps)

SpecDuplicates == Init /\ [][NextDuplicates]_vars

\* The behaviours in which the list is only fetched, from a server whose items have
\* any of a few names, categories and done flags.
SectionNames == {"apple", "bread", "cheese"}

SectionCategories == {"", General, "dairy", "constructor"}

SectionServers ==
  [ItemIds ->
     {[present |-> FALSE, name |-> "apple", quantity |-> 1, category |-> "", done |-> FALSE]}
       \cup [present : {TRUE}, name : SectionNames, quantity : {1},
             category : SectionCategories, done : BOOLEAN]]

InitSections ==
  /\ isLoading = TRUE
  /\ isRefreshing = FALSE
  /\ showRefreshLottie = FALSE
  /\ error = "null"
  /\ items = <<>>
  /\ snack = NoSnack
  /\ collapsedCategories = {}
  /\ deletingCategories = {}
  /\ rows = [id \in ItemIds |-> [mounted |-> FALSE, items |-> <<>>]]
  /\ ops = <<LoadOp(TRUE)>>
  /\ server \in SectionServers
  /\ categorizedItems = CategorizedItems(<<>>)
  /\ receiptsPage = InitReceiptsPage
  /\ addForm = InitAddForm
  /\ disturbed = <<FALSE>>
  /\ atCall = <<NoCall>>
  /\ last = NoLast

NextSections ==
  \/ \E i \in 1..MaxSectionOps, outcome \in {"ok", "non_ok"} : ServerProcess(i, outcome)
  \/ \E i \in 1..MaxSectionOps : LoadOk(i)
  \/ \E i \in 1..MaxSectionOps : LoadFail(i)
  \/ Retry(MaxSectionOps)

SpecSections == InitSections /\ [][NextSections]_vars

\* The behaviours in which, after the list is fetched, the user only ticks and
\* unticks the checkbox of item "a"; a request is accepted or refused by the server.
NextToggles ==
  \/ \E i \in 1..MaxItemOps, outcome \in {"ok", "non_ok"} : ServerProcess(i, outcome)
  \/ \E i \in 1..MaxItemOps : LoadOk(i)
  \/ \E i \in 1..MaxItemOps : LoadFail(i)
  \/ \E i \in 1..MaxItemOps : ToggleOk(i)
  \/ \E i \in 1..MaxItemOps : ToggleFail(i)
  \/ ToggleCategory(General)
  \/ \E k \in DOMAIN items : items[k].id = "a" /\ ToggleItemDone(k, MaxItemOps)

SpecToggles == Init /\ [][NextToggles]_vars

\* The same with the + and - buttons of item "a".
NextQuantities ==
  \/ \E i \in 1..MaxItemOps, outcome \in {"ok", "non_ok"} : ServerProcess(i, outcome)
  \/ \E i \in 1..MaxItemOps : LoadOk(i)
  \/ \E i \in 1..MaxItemOps : LoadFail(i)
  \/ \E i \in 1..MaxItemOps : QuantityOk(i)
  \/ \E i \in 1..MaxItemOps : QuantityFail(i)
  \/ ToggleCategory(General)
  \/ \E k \in DOMAIN items, quantity \in 1..MaxItemQty :
       items[k].id = "a" /\ UpdateItemQuantity(k, quantity, MaxItemOps)

SpecQuantities == Init /\ [][NextQuantities]_vars

\* The behaviours in which the user only opens and closes sections, refreshes, and
\* presses the delete-all buttons.  Every fetch settles, with a response or with a
\* rejection, and the event loop runs every continuation and the 50 ms timer.
NextBulk ==
  \/ \E i \in 1..MaxBulkOps, outcome \in Outcomes : ServerProcess(i, outcome)
  \/ \E i \in 1..MaxBulkOps : LoadOk(i)
  \/ \E i \in 1..MaxBulkOps : LoadFail(i)
  \/ \E i \in 1..MaxBulkOps : DeleteAllNext(i)
  \/ \E i \in 1..MaxBulkOps : DeleteAllOk(i)
  \/ \E i \in 1..MaxBulkOps : DeleteAllFail(i)
  \/ RefreshTimeout
  \/ \E categoryTitle \in {General, "dairy"} : ToggleCategory(categoryTitle)
  \/ OnRefresh(MaxBulkOps)
  \/ \E categoryTitle \in {General, "dairy"} : DeleteAllInCategory(categoryTitle, MaxBulkOps)

FairBulk ==
  \A i \in 1..MaxBulkOps :
    /\ WF_vars(\E outcome \in Outcomes : ServerProcess(i, outcome))
    /\ WF_vars(DeleteAllNext(i))
    /\ WF_vars(DeleteAllOk(i))
    /\ WF_vars(DeleteAllFail(i))

SpecBulk == Init /\ [][NextBulk]_vars /\ FairBulk

\* The behaviours of loads, deletions from the trash button, and section toggles.
NextCollapse ==
  \/ \E i \in 1..MaxCollapseOps, outcome \in Outcomes : ServerProcess(i, outcome)
  \/ \E i \in 1..MaxCollapseOps : LoadOk(i)
  \/ \E i \in 1..MaxCollapseOps : LoadFail(i)
  \/ \E i \in 1..MaxCollapseOps : DeleteOk(i)
  \/ \E i \in 1..MaxCollapseOps : DeleteFail(i)
  \/ RefreshTimeout
  \/ \E categoryTitle \in {General, "dairy"} : ToggleCategory(categoryTitle)
  \/ ToggleAllCategories
  \/ Retry(MaxCollapseOps)
  \/ OnRefresh(MaxCollapseOps)
  \/ \E k \in DOMAIN items : DeleteItem(k, MaxCollapseOps)

SpecCollapse == Init /\ [][NextCollapse]_vars

\* The list with one free id on the server: c has been removed.
AddServers ==
  {[id \in ItemIds |-> [present |-> id # "c", name |-> NameOf(id), quantity |-> 1,
                        category |-> CategoryOf(id), done |-> FALSE]]}

InitAdd ==
  /\ isLoading = TRUE
  /\ isRefreshing = FALSE
  /\ showRefreshLottie = FALSE
  /\ error = "null"
  /\ items = <<>>
  /\ snack = NoSnack
  /\ collapsedCategories = {}
  /\ deletingCategories = {}
  /\ rows = [id \in ItemIds |-> [mounted |-> FALSE, items |-> <<>>]]
  /\ ops = <<LoadOp(TRUE)>>
  /\ server \in AddServers
  /\ categorizedItems = CategorizedItems(<<>>)
  /\ receiptsPage = InitReceiptsPage
  /\ addForm = InitAddForm
  /\ disturbed = <<FALSE>>
  /\ atCall = <<NoCall>>
  /\ last = NoLast

\* The behaviours in which the user opens and closes sections and the add modal,
\* fills the form and presses its two buttons.  While the modal is up it covers
\* the list.
NextAdd ==
  \/ \E i \in 1..MaxAddOps, outcome \in Outcomes : ServerProcess(i, outcome)
  \/ \E i \in 1..MaxAddOps : LoadOk(i)
  \/ \E i \in 1..MaxAddOps : LoadFail(i)
  \/ \E i \in 1..MaxAddOps : AddOk(i)
  \/ \E i \in 1..MaxAddOps : AddLoaded(i)
  \/ \E i \in 1..MaxAddOps : AddTimeout(i)
  \/ \E i \in 1..MaxAddOps : AddFail(i)
  \/ \E i \in 1..MaxAddOps : AddFailTimeout(i)
  \/ \E categoryTitle \in {General, "dairy"} :
       ~ModalShown /\ ToggleCategory(categoryTitle)
  \/ OpenModal
  \/ CloseModal
  \/ \E text \in AddNames : SetAddName(text)
  \/ \E text \in AddQuantities : SetAddQuantity(text)
  \/ \E text \in AddCategories : SetAddCategory(text)
  \/ HandleAddItem(MaxAddOps)
  \/ AddAnother(MaxAddOps)

SpecAdd == InitAdd /\ [][NextAdd]_vars

\* The receipts screen alone: its fetches, with any response.
NextReceipts ==
  \/ \E data \in ReceiptLists : ReceiptsLoadOk(data)
  \/ ReceiptsLoadFail

SpecReceipts == Init /\ [][NextReceipts]_vars

\* =================================================================== claims
Failed(rec) == rec.resp \in {"non_ok", "network_error"}

\* The list `after` is the list `before` with nothing changed but the done flag
\* (resp. the quantity) of the entries with this id.
OnlyDoneChanged(before, after, id) ==
  /\ Len(after) = Len(before)
  /\ \A k \in DOMAIN before :
       IF before[k].id = id
         THEN [after[k] EXCEPT !.done = before[k].done] = before[k]
         ELSE after[k] = before[k]

OnlyQuantityChanged(before, after, id) ==
  /\ Len(after) = Len(before)
  /\ \A k \in DOMAIN before :
       IF before[k].id = id
         THEN [after[k] EXCEPT !.quantity = before[k].quantity] = before[k]
         ELSE after[k] = before[k]

\* C1: when the /done or /undone request of a toggleItemDone call has failed and no
\* other operation has touched the item since the call, then right after the failure
\* is handled every local entry of the item has the done flag the pressed entry had
\* before the call, nothing else in the list has changed, and the snackbar shows an error.
C1_ToggleRollback ==
  (last.action = "ToggleFail" /\ ~last.disturbed) =>
    /\ Failed(last.rec)
    /\ OnlyDoneChanged(last.before, items, last.rec.itemId)
    /\ \A k \in DOMAIN items :
         items[k].id = last.rec.itemId => items[k].done = last.call.entry.done
    /\ snack.type = "error"

C1_Witness ==
  /\ last.action = "ToggleFail"
  /\ ~last.disturbed
  /\ Entries(items, last.rec.itemId) # <<>>
  /\ items # last.before
  /\ Len(items) > 1

\* C2: right after a failing /remove of deleteItem is handled, the local list holds
\* the item with the name, quantity, category and done flag the deleted entry had
\* when deleteItem was called, and the snackbar shows an error; handling an OK
\* response leaves the list as it is (an absent item stays absent).
C2_DeleteRollback ==
  /\ last.action = "DeleteFail" =>
       /\ \E k \in DOMAIN items : items[k] = last.call.entry
       /\ snack.type = "error"
  /\ last.action = "DeleteOk" => items = last.before

\* C3: right after a failing /quantity request is handled, every local entry of the
\* item has the quantity the pressed entry had before updateItemQuantity was called
\* and the snackbar shows an error; the call itself sets the quantity to q, and
\* handling an OK response leaves the list as it is.
C3_QuantityRollback ==
  /\ last.action = "QuantityFail" =>
       /\ OnlyQuantityChanged(last.before, items, last.rec.itemId)
       /\ \A k \in DOMAIN items :
            items[k].id = last.rec.itemId => items[k].quantity = last.call.entry.quantity
       /\ snack.type = "error"
  /\ last.action = "UpdateItemQuantity" =>
       /\ OnlyQuantityChanged(last.before, items, last.rec.itemId)
       /\ \A k \in DOMAIN items :
            items[k].id = last.rec.itemId => items[k].quantity = last.rec.quantity
  /\ last.action = "QuantityOk" => items = last.before

\* C4: the call of deleteAllInCategory(C) leaves the local list without any item of
\* section C, and with every other item in place, before any of its requests is
\* answered; right after a failing /remove of the bulk delete is handled the local
\* list is exactly the list of the moment of the call and the snackbar shows an error.
C4_DeleteAllRollback ==
  /\ last.action = "DeleteAllInCategory" =>
       /\ \A k \in DOMAIN items : Title(items[k]) # last.rec.categoryTitle
       /\ items = NotInCategory(last.before, last.rec.categoryTitle)
       /\ ops[last.op].responses = <<>>
  /\ last.action = "DeleteAllFail" =>
       /\ items = last.call.items
       /\ snack.type = "error"

C4_Witness ==
  /\ last.action = "DeleteAllFail"
  /\ Len(last.rec.responses) = 2
  /\ items # last.before
  /\ \E k \in DOMAIN items : Title(items[k]) # last.rec.categoryTitle

CarriesId(e) == e.typeof = "object" /\ ~e.isNull /\ e.hasId

\* C6: right after an OK response of a list fetch is handled, the local list is
\* exactly the entries of the response that are objects carrying an id, in the
\* response's order, whatever the local list was before.
C6_LoadReplaces ==
  last.action = "LoadOk" =>
    LET objs == SelectSeq(last.rec.payload, CarriesId)
    IN /\ Len(items) = Len(objs)
       /\ \A k \in DOMAIN objs : items[k] = objs[k].val
       /\ Len(objs) < Len(last.rec.payload)

\* A local optimistic change that the response does not hold is gone.
C6_Witness ==
  /\ last.action = "LoadOk"
  /\ Len(last.before) = Len(items)
  /\ \E k \in DOMAIN items : items[k].done # last.before[k].done
  /\ \E i \in DOMAIN ops : ops[i].kind = "toggle" /\ ops[i].phase # "done"

AllLoadsHandled == \A j \in DOMAIN ops : ops[j].kind = "load" => ops[j].phase = "done"

\* C7: once every list fetch has been handled, the last of them with an OK response,
\* the local list is the payload of that response, also when that fetch was sent
\* before another one that has been handled earlier.
C7_LastResponseWins ==
  (last.action = "LoadOk" /\ AllLoadsHandled) => items = ItemsArray(last.rec.payload)

\* The response handled last belongs to the fetch sent first, and differs.
C7_Witness ==
  /\ last.action = "LoadOk"
  /\ AllLoadsHandled
  /\ \E j \in DOMAIN ops : j > last.op /\ ops[j].kind = "load"
  /\ items # last.before
  /\ items = ItemsArray(last.rec.payload)

\* C8: right after a failing list fetch is handled, the local list and the collapsed
\* categories are what they were, the error message is set and isLoading is false.
C8_LoadFailure ==
  last.action = "LoadFail" =>
    /\ Failed(last.rec)
    /\ items = last.before
    /\ collapsedCategories = last.collapsed
    /\ error = "load_failed"
    /\ isLoading = FALSE

C8_Witness ==
  /\ last.action = "LoadFail"
  /\ Len(items) > 0
  /\ collapsedCategories # {}
  /\ last.rec.resp = "network_error"

\* What a call has sent and received, while it runs and at the step that ends it.
Running == {ops[i] : i \in {j \in DOMAIN ops : ops[j].phase # "done"}}
             \cup (IF last.op # 0 THEN {last.rec} ELSE {})

\* C9: a call of toggleItemDone, deleteItem or updateItemQuantity sends exactly one
\* request; a call of deleteAllInCategory sends at most one /remove per item of the
\* category; and no request follows a failed one in the same call.
C9_NoRetry ==
  \A rec \in Running :
    /\ rec.kind \in {"toggle", "delete", "quantity", "load"} => Len(rec.requests) = 1
    /\ rec.kind = "bulk" =>
         /\ Len(rec.requests) <= Len(rec.itemsInCategory)
         /\ \A k \in DOMAIN rec.requests :
              /\ rec.requests[k].endpoint = "remove"
              /\ rec.requests[k].itemID = rec.itemsInCategory[k].id
    /\ \A k \in DOMAIN rec.responses :
         rec.responses[k] # "ok" => Len(rec.requests) = k

C9_Witness ==
  /\ last.action \in {"ToggleFail", "DeleteFail", "QuantityFail", "DeleteAllFail"}
  /\ Failed(last.rec)
  /\ Len(ops) < MaxOps

\* C10: the /remove requests of a bulk delete follow the list order of the category's
\* items, one at a time: a request is sent only when all the earlier ones have got an
\* OK response, and none is sent after a failing response.
C10_BulkSequential ==
  \A rec \in Running :
    rec.kind = "bulk" =>
      /\ Len(rec.requests) = rec.idx
      /\ InCategory(rec.prevItems, rec.categoryTitle) = rec.itemsInCategory
      /\ \A k \in DOMAIN rec.requests : rec.requests[k].itemID = rec.itemsInCategory[k].id
      /\ Len(rec.responses) \in {Len(rec.requests) - 1, Len(rec.requests)}
      /\ \A k \in DOMAIN rec.responses : k < Len(rec.requests) => rec.responses[k] = "ok"

\* The first item's request got OK, the second is in flight.
C10_Witness ==
  \E i \in DOMAIN ops :
    /\ ops[i].kind = "bulk"
    /\ ops[i].phase = "sent"
    /\ Len(ops[i].requests) = 2
    /\ ops[i].responses = <<"ok">>

\* How many entries of the sequence equal x.
Count(s, x) == Cardinality({k \in DOMAIN s : s[k] = x})

\* C11: categorizedItems returns sections that partition the local list: every item
\* is in the section titled with its category (General when empty) as often as it is
\* in the list and in no other, no section is empty, no two sections share a title,
\* and the titles ascend.
C11_SectionsPartition ==
  LET sections == categorizedItems.sections
  IN /\ ~categorizedItems.threw
     /\ {sections[n].title : n \in DOMAIN sections} = Titles(items)
     /\ \A n \in DOMAIN sections :
          /\ sections[n].data # <<>>
          /\ \A k \in DOMAIN sections[n].data :
               Title(sections[n].data[k]) = sections[n].title
          /\ \A k \in DOMAIN items :
               Title(items[k]) = sections[n].title =>
                 Count(sections[n].data, items[k]) = Count(items, items[k])
     /\ \A n, m \in DOMAIN sections :
          n < m => LocaleCompare(sections[n].title, sections[m].title) < 0

\* C12: in every section the not-done items come first and are notDoneCount many,
\* the done items follow, and each of the two groups ascends by name.
C12_SectionOrder ==
  \A n \in DOMAIN categorizedItems.sections :
    LET section == categorizedItems.sections[n]
        data == section.data
    IN /\ section.notDoneCount = Cardinality({k \in DOMAIN data : ~data[k].done})
       /\ \A k \in DOMAIN data : data[k].done <=> k > section.notDoneCount
       /\ \A j, k \in DOMAIN data :
            (j < k /\ data[j].done = data[k].done) =>
              LocaleCompare(data[j].name, data[k].name) <= 0

\* A fetched section of three items in which a done item's name sorts before a
\* not-done item's, and the not-done items arrived in descending name order.
C12_Witness ==
  /\ last.action = "LoadOk"
  /\ \E n \in DOMAIN categorizedItems.sections :
       LET data == categorizedItems.sections[n].data
       IN /\ Len(data) = 3
          /\ categorizedItems.sections[n].notDoneCount = 2
          /\ LocaleCompare(data[3].name, data[1].name) < 0
          /\ LocaleCompare(data[1].name, data[2].name) < 0
          /\ LocaleCompare(items[1].name, items[2].name) > 0
          /\ Len(categorizedItems.sections) = 1

\* C13: groupByCompanyCity puts every receipt in the section labelled with its company
\* and city, as often as it is in the list, and in no other; each section's sum is the
\* sum of its receipts' totals, so the sums add up to the total of all receipts; and
\* inside a section the receipts go from the latest createdDate to the earliest.
C13_ReceiptSections ==
  LET sections == receiptsPage.sections
      receipts == receiptsPage.receipts
      sums == [n \in DOMAIN sections |-> [total |-> sections[n].sum]]
  IN /\ \A k \in DOMAIN receipts :
          \E n \in DOMAIN sections :
            /\ sections[n].title = Label(receipts[k])
            /\ Count(sections[n].data, receipts[k]) = Count(receipts, receipts[k])
            /\ \A m \in DOMAIN sections :
                 m # n => Count(sections[m].data, receipts[k]) = 0
     /\ \A n \in DOMAIN sections :
          /\ \A k \in DOMAIN sections[n].data :
               /\ Label(sections[n].data[k]) = sections[n].title
               /\ Count(receipts, sections[n].data[k]) > 0
          /\ sections[n].sum = SumOfTotals(sections[n].data)
          /\ \A j, k \in DOMAIN sections[n].data :
               j < k => GetTime(sections[n].data[j].createdDate)
                          >= GetTime(sections[n].data[k].createdDate)
     /\ SumOfTotals(sums) = SumOfTotals(receipts)

\* Two sections; one holds two receipts that arrived earliest first, and a receipt of
\* the other section arrived between them.
C13_Witness ==
  LET sections == receiptsPage.sections
      receipts == receiptsPage.receipts
  IN /\ Len(receipts) = 3
     /\ Len(sections) = 2
     /\ Label(receipts[1]) = Label(receipts[3])
     /\ Label(receipts[1]) # Label(receipts[2])
     /\ GetTime(receipts[1].createdDate) < GetTime(receipts[3].createdDate)
     /\ receipts[1].company # receipts[3].company

\* C14: the call of deleteItem(id), from the trash button or from the swipe, leaves
\* the local list as it was immediately before the call but for the entries with
\* that id: every other entry is still there, in place, with its done flag and quantity.
C14_DeleteFrame ==
  last.action = "DeleteItem" => items = Without(last.before, last.rec.itemId)

\* Every request has been answered and its response handled.
Quiescent == \A i \in DOMAIN ops : ops[i].phase = "done"

\* C15: once every request of the toggleItemDone calls on an item has been answered
\* and handled, the item's local done flag is the one the server holds.
C15_DoneConverges ==
  Quiescent =>
    \A k \in DOMAIN items : items[k].id = "a" => items[k].done = server["a"].done

\* C16: once every request of the updateItemQuantity calls on an item has been
\* answered and handled, and the server holds a quantity that an accepted update
\* has set, the item's local quantity is that quantity.
C16_QuantityConverges ==
  (Quiescent /\ server["a"].quantity # 1) =>
    \A k \in DOMAIN items : items[k].id = "a" => items[k].quantity = server["a"].quantity

\* C17: the local list never holds two entries with one id (every response of the
\* modelled server lists an id at most once).
C17_UniqueIds ==
  \A j, k \in DOMAIN items : j # k => items[j].id # items[k].id

\* C18: when a bulk delete has just ended, with success or with failure, nothing else
\* is in flight, the user has called nothing else but fetches of the list, and every
\* /remove of the bulk delete got an answer from the server, then every item of the
\* local list is still on the server.
C18_BulkRestoreOnServer ==
  ( /\ last.action \in {"DeleteAllOk", "DeleteAllFail"}
    /\ Quiescent
    /\ \A i \in DOMAIN ops : i # last.op => ops[i].kind = "load"
    /\ \A k \in DOMAIN last.rec.responses : last.rec.responses[k] # "network_error" )
  => \A k \in DOMAIN items : server[items[k].id].present

C20_CollapseOnInitialLoad ==
  /\ last.action = "LoadOk" =>
       IF last.rec.isInitialLoad
         THEN collapsedCategories = Titles(items)
         ELSE collapsedCategories = last.collapsed
  /\ last.action \in {"LoadFail", "OnRefresh", "Retry"} =>
       collapsedCategories = last.collapsed

\* A refresh has brought a different list while a section was open and another closed.
C20_Witness ==
  /\ last.action = "LoadOk"
  /\ ~last.rec.isInitialLoad
  /\ items # last.before
  /\ collapsedCategories # {}
  /\ collapsedCategories # Titles(items)

\* The titles of the sections the list screen shows.
Displayed == IF CurrentView = "list" THEN SectionTitles(categorizedItems) ELSE {}

\* C21: right after toggleAllCategories, no displayed category is collapsed if one
\* was collapsed before the call, and every displayed category is collapsed if none
\* was.
C21_ToggleAll ==
  last.action = "ToggleAllCategories" =>
    IF last.collapsed \cap Displayed # {}
      THEN collapsedCategories \cap Displayed = {}
      ELSE Displayed \subseteq collapsedCategories

\* C22: right after the failure of an /add request has been handled, an error
\* snackbar is shown, and if the local list holds an item whose trimmed name is the
\* trimmed name that was submitted, that item's category is not collapsed, and if
\* it holds no such item, the add modal is visible.
C22_AddFailure ==
  last.action = "AddFailTimeout" =>
    LET sameName(x) == Trim(x.name) = last.rec.addName
        found == SelectSeq(items, sameName)
    IN /\ snack.type = "error"
       /\ IF found # <<>>
            THEN \A k \in DOMAIN found : Title(found[k]) \notin collapsedCategories
            ELSE addForm.modalVisible

====
